---- MODULE Spec2Model ----
(***************************************************************************)
(* A model of watermark.py: the date-watermark pipeline.                   *)
(*                                                                         *)
(* SpecPure applies the pure helpers (compute_text_position,               *)
(* draw_watermark, get_exif_datetime with its modification-time fallback   *)
(* and format_date) to inputs drawn from bounded sets.  Spec runs main()   *)
(* over a small file system, one or more times in a row on the same input  *)
(* path; LiveSpec adds that a started run keeps taking steps.              *)
(***************************************************************************)
EXTENDS Integers, Sequences, FiniteSets, TLC

VARIABLES
    call,       \* SpecPure: the function applied and its arguments
    ret,        \* SpecPure: what the function returned
    files,      \* the regular files on disk (paths)
    dirs,       \* the directories on disk (paths)
    corrupt,    \* the files on which Image.open or the compositing raises
    unwritable, \* the paths at which writing a file fails
    input_path, \* main: Path(args.input_path)
    pc,         \* main: position in the run
    exit_code,  \* main: the process's exit status, -1 while running
    report,     \* main: the "Done. Processed N image(s)" line, when printed
    output_dir, \* main: find_output_dir(input_path)
    processed,  \* main: the counter of successes
    stack,      \* os.walk: directories still to list
    root,       \* os.walk: the directory being yielded
    todo,       \* os.walk: the files of `root` not yet iterated
    log,        \* this run's calls of process_image_file
    nhanded,    \* this run's number of calls of process_image_file
    files0,     \* the files on disk when this run started
    dirs0,      \* the directories on disk when this run started
    history     \* one record per completed earlier run

pureVars == <<call, ret>>
fsVars == <<files, dirs, corrupt, unwritable>>
runVars == <<input_path, pc, exit_code, report, output_dir, processed,
             stack, root, todo, log, nhanded, files0, dirs0, history>>
vars == <<call, ret, files, dirs, corrupt, unwritable, input_path, pc, exit_code,
          report, output_dir, processed, stack, root, todo, log, nhanded,
          files0, dirs0, history>>

----------------------------------------------------------------------------
(* Bounds of the model *)

\* text width and height range over 0..MaxText
MaxText == 3
\* opacity ranges over -OpacitySlack .. 255 + OpacitySlack
OpacitySlack == 3
\* how many times in a row main() is run on the same input
MaxRuns == 2

----------------------------------------------------------------------------
(* Small helpers *)

Min(a, b) == IF a < b THEN a ELSE b
Max(a, b) == IF a > b THEN a ELSE b

----------------------------------------------------------------------------
(* compute_text_position *)

\* the default of the margin parameter
margin == 16

\* a faulty variant: the center anchor halves rounding toward zero and the right
\* and bottom anchors are clamped at 0
compute_text_position_clamped(img_size, text_size, position, m) ==
    LET img_w == img_size[1]
        img_h == img_size[2]
        text_w == text_size[1]
        text_h == text_size[2]
        Half(n) == IF n >= 0 THEN n \div 2 ELSE 0 - ((0 - n) \div 2)
    IN  IF position = "top-left" THEN <<m, m>>
        ELSE IF position = "top-right" THEN <<Max(0, img_w - text_w - m), m>>
        ELSE IF position = "center"
            THEN <<Half(img_w - text_w), Half(img_h - text_h)>>
        ELSE IF position = "bottom-left" THEN <<m, Max(0, img_h - text_h - m)>>
        ELSE <<Max(0, img_w - text_w - m), Max(0, img_h - text_h - m)>>

\* Python's // is floor division, as is \div
compute_text_position(img_size, text_size, position, m) ==
    LET img_w == img_size[1]
        img_h == img_size[2]
        text_w == text_size[1]
        text_h == text_size[2]
    IN  IF position = "top-left" THEN <<m, m>>
        ELSE IF position = "top-right" THEN <<img_w - text_w - m, m>>
        ELSE IF position = "center"
            THEN <<(img_w - text_w) \div 2, (img_h - text_h) \div 2>>
        ELSE IF position = "bottom-left" THEN <<m, img_h - text_h - m>>
        ELSE <<img_w - text_w - m, img_h - text_h - m>>

Positions == {"top-left", "top-right", "center", "bottom-left", "bottom-right"}

----------------------------------------------------------------------------
(* draw_watermark *)

\* ImageColor.getrgb on the colour strings of the model; <<>> stands for
\* the ValueError it raises on a string that names no colour
getrgb(color) ==
    CASE color = "#FFFFFF" -> <<255, 255, 255>>
      [] color = "red" -> <<255, 0, 0>>
      [] OTHER -> <<>>

Colors == {"#FFFFFF", "red", "no-such-colour"}

shadow_offset == 2

\* The two draw.text calls, in order: the shadow pass, then the primary pass.
draw_watermark(size, text_size, color, opacity, position) ==
    LET xy == compute_text_position(size, text_size, position, margin)
        parsed == getrgb(color)
        fill_color == IF parsed = <<>> THEN <<255, 255, 255>> ELSE parsed
        fill == fill_color \o <<Max(0, Min(255, opacity))>>
    IN  << [xy |-> <<xy[1] + shadow_offset, xy[2] + shadow_offset>>,
            fill |-> <<0, 0, 0, Min(255, opacity)>>],
           [xy |-> xy, fill |-> fill] >>

----------------------------------------------------------------------------
(* get_exif_datetime, get_file_mtime, format_date *)

\* Text is a sequence of tokens: a literal piece, or a run of w digits
\* that reads as the number n.
L(c) == [lit |-> c]
N(w, n) == [w |-> w, n |-> n]
IsLit(tok) == "lit" \in DOMAIN tok
IsNum(tok) == "n" \in DOMAIN tok
\* a byte that is not valid UTF-8
BadByte == [bad |-> TRUE]

\* Metadata values: a str, a bytes, an int, or no entry at all
StrVal(s) == [t |-> "str", s |-> s]
BytesVal(b) == [t |-> "bytes", s |-> b]
IntVal(n) == [t |-> "int", n |-> n]
Absent == [t |-> "absent"]

\* Python truthiness of tag_map.get(key)
Truthy(value) ==
    CASE value.t = "absent" -> FALSE
      [] value.t = "int" -> value.n # 0
      [] OTHER -> value.s # <<>>

\* bytes.decode("utf-8", errors="ignore"): the invalid bytes are dropped
RECURSIVE decode_ignore(_)
decode_ignore(b) ==
    IF b = <<>> THEN <<>>
    ELSE IF "bad" \in DOMAIN Head(b) THEN decode_ignore(Tail(b))
    ELSE <<Head(b)>> \o decode_ignore(Tail(b))

\* str(value), after the bytes branch
to_str(value) ==
    CASE value.t = "bytes" -> decode_ignore(value.s)
      [] value.t = "int" -> <<N(1, value.n)>>
      [] OTHER -> value.s

\* The formats tried, in order
Formats ==
    << <<"%Y", ":", "%m", ":", "%d", " ", "%H", ":", "%M", ":", "%S">>,
       <<"%Y", "-", "%m", "-", "%d", " ", "%H", ":", "%M", ":", "%S">>,
       <<"%Y", ":", "%m", ":", "%d">>,
       <<"%Y", "-", "%m", "-", "%d">> >>

\* whether one token matches one element of a format
Matches(tok, d) ==
    CASE d = "%Y" -> IsNum(tok) /\ tok.w = 4 /\ tok.n \in 1..9999
      [] d = "%m" -> IsNum(tok) /\ tok.w \in 1..2 /\ tok.n \in 1..12
      [] d = "%d" -> IsNum(tok) /\ tok.w \in 1..2 /\ tok.n \in 1..31
      [] d = "%H" -> IsNum(tok) /\ tok.w \in 1..2 /\ tok.n \in 0..23
      [] d = "%M" -> IsNum(tok) /\ tok.w \in 1..2 /\ tok.n \in 0..59
      [] d = "%S" -> IsNum(tok) /\ tok.w \in 1..2 /\ tok.n \in 0..59
      [] OTHER -> IsLit(tok) /\ tok.lit = d

\* datetime.strptime(value, fmt): <<dt>>, or <<>> for ValueError
strptime(value, fmt) ==
    IF /\ Len(value) = Len(fmt)
       /\ \A i \in 1..Len(fmt) : Matches(value[i], fmt[i])
    THEN LET Field(d, dflt) ==
                 IF \E i \in 1..Len(fmt) : fmt[i] = d
                 THEN value[CHOOSE i \in 1..Len(fmt) : fmt[i] = d].n
                 ELSE dflt
         IN  << [Y |-> Field("%Y", 1900), m |-> Field("%m", 1),
                 d |-> Field("%d", 1), H |-> Field("%H", 0),
                 M |-> Field("%M", 0), S |-> Field("%S", 0)] >>
    ELSE <<>>

\* the inner loop: the first format that parses
RECURSIVE try_formats(_, _)
try_formats(value, i) ==
    IF i > Len(Formats) THEN <<>>
    ELSE IF strptime(value, Formats[i]) # <<>> THEN strptime(value, Formats[i])
    ELSE try_formats(value, i + 1)

Keys == <<"DateTimeOriginal", "DateTimeDigitized", "DateTime">>

tag_get(tag_map, key) == IF key \in DOMAIN tag_map THEN tag_map[key] ELSE Absent

\* the outer loop, from key number k on
RECURSIVE scan_keys(_, _)
scan_keys(tag_map, k) ==
    IF k > Len(Keys) THEN <<>>
    ELSE LET value == tag_get(tag_map, Keys[k])
         IN  IF ~Truthy(value) THEN scan_keys(tag_map, k + 1)
             ELSE IF try_formats(to_str(value), 1) # <<>>
                 THEN try_formats(to_str(value), 1)
             ELSE scan_keys(tag_map, k + 1)

\* a faulty variant: the first present, non-empty value decides, parseable or not
RECURSIVE scan_keys_first_present(_, _)
scan_keys_first_present(tag_map, k) ==
    IF k > Len(Keys) THEN <<>>
    ELSE LET value == tag_get(tag_map, Keys[k])
         IN  IF ~Truthy(value) THEN scan_keys_first_present(tag_map, k + 1)
             ELSE try_formats(to_str(value), 1)

get_exif_datetime_first_present(exif) ==
    IF exif.fault THEN <<>>
    ELSE IF DOMAIN exif.tags = {} THEN <<>>
    ELSE scan_keys_first_present(exif.tags, 1)

\* <<dt>>, or <<>> for None.  exif.fault: image.getexif() raises.
get_exif_datetime(exif) ==
    IF exif.fault THEN <<>>
    ELSE IF DOMAIN exif.tags = {} THEN <<>>
    ELSE scan_keys(exif.tags, 1)

\* datetime.fromtimestamp(path.stat().st_mtime)
get_file_mtime(mtime) == mtime

\* a two-digit field of strftime
Pad2(n) == IF n < 10 THEN "0" \o ToString(n) ELSE ToString(n)

\* date.strftime("%Y-%m-%d").  The dates of the model have four-digit years;
\* whether an earlier year is zero-padded is up to the platform's C library.
format_date(date) == ToString(date.Y) \o "-" \o Pad2(date.m) \o "-" \o Pad2(date.d)

\* process_image_file, its first three statements: the watermark text
watermark_text(exif, mtime) ==
    LET date_dt == get_exif_datetime(exif)
    IN  IF date_dt = <<>> THEN format_date(get_file_mtime(mtime))
        ELSE format_date(date_dt[1])

----------------------------------------------------------------------------
(* Names and paths.  A name is a sequence of characters, a path a sequence *)
(* of names from the file-system root.                                     *)

UpperLetters == <<"A", "B", "C", "D", "E", "F", "G", "H", "I", "J", "K", "L", "M",
                  "N", "O", "P", "Q", "R", "S", "T", "U", "V", "W", "X", "Y", "Z">>
LowerLetters == <<"a", "b", "c", "d", "e", "f", "g", "h", "i", "j", "k", "l", "m",
                  "n", "o", "p", "q", "r", "s", "t", "u", "v", "w", "x", "y", "z">>

\* the lower-case form of every character that has one
ToLower == [c \in { UpperLetters[i] : i \in 1..Len(UpperLetters) } |->
               LowerLetters[CHOOSE i \in 1..Len(UpperLetters) : UpperLetters[i] = c]]

lower_char(c) == IF c \in DOMAIN ToLower THEN ToLower[c] ELSE c

\* str.lower()
lower(s) ==
    LET Lowered[v \in {s}] == [i \in 1..Len(v) |-> lower_char(v[i])]
    IN  Lowered[s]

\* str.endswith(suf)
endswith(s, suf) ==
    /\ Len(suf) <= Len(s)
    /\ SubSeq(s, Len(s) - Len(suf) + 1, Len(s)) = suf

\* the 1-based index of the last "." of name, 0 when there is none
rfind_dot(name) ==
    IF \E i \in 1..Len(name) : name[i] = "."
    THEN CHOOSE i \in 1..Len(name) :
             /\ name[i] = "."
             /\ \A j \in (i + 1)..Len(name) : name[j] # "."
    ELSE 0

\* PurePath.suffix: from the last dot on, unless that dot starts or ends the name
suffix(name) ==
    LET i == rfind_dot(name)
    IN  IF 1 < i /\ i < Len(name) THEN SubSeq(name, i, Len(name)) ELSE <<>>

\* PurePath.stem
stem(name) ==
    LET i == rfind_dot(name)
    IN  IF 1 < i /\ i < Len(name) THEN SubSeq(name, 1, i - 1) ELSE name

\* Path.name and Path.parent
name_of(path) == IF path = <<>> THEN <<>> ELSE path[Len(path)]
parent(path) == IF path = <<>> THEN <<>> ELSE SubSeq(path, 1, Len(path) - 1)

\* root_path.relative_to(input_path), for root_path at or below input_path
relative_to(path, base) == SubSeq(path, Len(base) + 1, Len(path))

\* whether path lies strictly below dir
IsUnder(path, dir) ==
    /\ Len(path) > Len(dir)
    /\ SubSeq(path, 1, Len(dir)) = dir

Jpg == <<".", "j", "p", "g">>
Png == <<".", "p", "n", "g">>
ImageSuffixes ==
    { Jpg, <<".", "j", "p", "e", "g">>, Png, <<".", "b", "m", "p">>,
      <<".", "t", "i", "f", "f">>, <<".", "w", "e", "b", "p">> }

is_image_file(path) == lower(suffix(name_of(path))) \in ImageSuffixes

\* Path.exists, Path.is_file, and whether os.scandir can list the path
exists(path) == path \in files \cup dirs
is_file(path) == path \in files
is_dir(path) == path \in dirs

\* a faulty variant: the existence check is skipped
exists_unchecked(path) == TRUE

\* the guard of main's early exit
input_found(path) == exists(path)

Watermark == <<"_", "w", "a", "t", "e", "r", "m", "a", "r", "k">>

\* a faulty variant: the directory is named after the input path itself
find_output_dir_input_name(path) ==
    LET base_dir == IF is_file(path) THEN parent(path) ELSE path
    IN  base_dir \o <<name_of(path) \o Watermark>>

find_output_dir(path) ==
    LET base_dir == IF is_file(path) THEN parent(path) ELSE path
    IN  base_dir \o <<name_of(base_dir) \o Watermark>>

----------------------------------------------------------------------------
(* process_image_file *)

Wm == <<"_", "w", "m">>

\* a faulty variant: the extension is compared as written
out_name_case_sensitive(input_file) ==
    LET ext == suffix(name_of(input_file))
    IN  stem(name_of(input_file)) \o Wm \o (IF ext = Png THEN Png ELSE Jpg)

out_name(input_file) ==
    LET ext == lower(suffix(name_of(input_file)))
    IN  stem(name_of(input_file)) \o Wm \o (IF ext = Png THEN Png ELSE Jpg)

\* whether the image is converted to RGB before it is saved
flattens(name) ==
    \E l \in {lower(name)} :
        \/ endswith(l, Jpg)
        \/ endswith(l, <<".", "j", "p", "e", "g">>)

\* the directories output_dir.mkdir(parents=True, exist_ok=True) leaves behind
Ancestors(dir) == { SubSeq(dir, 1, k) : k \in 1..Len(dir) }

\* The outcome of one call: the returned path (<<>> for None), the file
\* system after it, whether the alpha channel was flattened, and the step
\* that raised.
process_image_file(input_file, out_dir) ==
    LET none(step, ds) ==
            [result |-> <<>>, files |-> files, dirs |-> ds,
             flattened |-> FALSE, failed |-> step]
        Save[name \in {out_name(input_file)}] ==
            IF (out_dir \o <<name>>) \in unwritable \cup dirs
            THEN none("save", dirs \cup Ancestors(out_dir))
            ELSE [result |-> <<out_dir \o <<name>>>>,
                  files |-> files \cup {out_dir \o <<name>>},
                  dirs |-> dirs \cup Ancestors(out_dir),
                  flattened |-> flattens(name), failed |-> "none"]
    IN  IF input_file \notin files \/ input_file \in corrupt
            THEN none("decode", dirs)
        ELSE IF Ancestors(out_dir) \cap files # {}
            THEN none("mkdir", dirs)
        ELSE Save[out_name(input_file)]

\* a faulty variant: the path is joined without the relative directory
out_dir_flat(out_root, rel) == out_root

\* out_dir = output_dir / rel
out_dir_of(out_root, rel) == out_root \o rel

\* a faulty variant: every call counts
count_every_call(count, result) == count + 1

\* if process_image_file(...): processed += 1
count_after(count, result) == IF result # <<>> THEN count + 1 ELSE count

----------------------------------------------------------------------------
(* The file systems and arguments main() is run on *)

P == << <<"p">> >>
D == P \o << <<"d">> >>
Sub == <<"s", "u", "b">>
Missing == P \o << <<"n", "o", "p", "e">> >>

A_jpg == D \o << <<"a", ".", "j", "p", "g">> >>
A_bmp == D \o << <<"a", ".", "b", "m", "p">> >>
N_txt == D \o << <<"n", ".", "t", "x", "t">> >>
B_PNG == D \o << Sub, <<"b", ".", "P", "N", "G">> >>
C_jpeg == D \o << Sub, Sub, <<"c", ".", "t", "a", "r", ".", "j", "p", "e", "g">> >>

CandidateFiles == {A_jpg, A_bmp, N_txt, B_PNG, C_jpeg}

\* the directories a set of files implies
DirsOf(fs) == UNION { Ancestors(parent(f)) : f \in fs }

InputPaths(fs) == {D, Missing} \cup (fs \cap {A_jpg, N_txt, B_PNG})

\* the files that may be undecodable, and the output paths that may be
\* unwritable (a full disk, a permission)
MaybeCorrupt == {A_bmp, B_PNG}
MaybeUnwritable ==
    { D \o << <<"d">> \o Watermark, Sub, Sub,
              <<"c", ".", "t", "a", "r", "_", "w", "m", ".", "j", "p", "g">> >>,
      D \o << <<"d">> \o Watermark,
              <<"a", "_", "w", "m", ".", "j", "p", "g">> >> }

NoCall == [fn |-> "none"]

----------------------------------------------------------------------------
(* main *)

InitRun ==
    /\ pc = "start"
    /\ exit_code = 0 - 1
    /\ report = <<>>
    /\ output_dir = <<>>
    /\ processed = 0
    /\ stack = <<>>
    /\ root = <<>>
    /\ todo = {}
    /\ log = {}
    /\ nhanded = 0
    /\ history = <<>>

Init ==
    /\ call = NoCall
    /\ ret = NoCall
    /\ files \in SUBSET CandidateFiles
    /\ dirs = {P, D} \cup DirsOf(files)
    /\ corrupt \in SUBSET (files \cap MaybeCorrupt)
    /\ unwritable \in SUBSET MaybeUnwritable
    /\ input_path \in InputPaths(files)
    /\ files0 = files
    /\ dirs0 = dirs
    /\ InitRun

\* main, up to the branch on input_path.is_file()
MainStart ==
    /\ pc = "start"
    /\ IF ~input_found(input_path)
       THEN /\ exit_code' = 1
            /\ pc' = "exited"
            /\ UNCHANGED <<output_dir, stack>>
       ELSE /\ output_dir' = find_output_dir(input_path)
            /\ IF is_file(input_path)
               THEN pc' = "single" /\ stack' = <<>>
               ELSE pc' = "walk" /\ stack' = <<input_path>>
            /\ UNCHANGED exit_code
    /\ UNCHANGED <<pureVars, fsVars, input_path, report, processed, root, todo,
                   log, nhanded, files0, dirs0, history>>

\* one call of process_image_file from main, and the counter's update
Handle(p, out_dir) ==
    \E r \in {process_image_file(p, out_dir)} :
        /\ files' = r.files
        /\ dirs' = r.dirs
        /\ processed' = count_after(processed, r.result)
        /\ log' = log \cup { [file |-> p, out_dir |-> out_dir,
                              result |-> r.result, flattened |-> r.flattened,
                              failed |-> r.failed] }
        /\ nhanded' = nhanded + 1
        /\ UNCHANGED <<corrupt, unwritable>>

\* the single-file branch
Single ==
    /\ pc = "single"
    /\ IF is_image_file(input_path)
       THEN Handle(input_path, output_dir)
       ELSE UNCHANGED <<fsVars, processed, log, nhanded>>
    /\ pc' = "report"
    /\ UNCHANGED <<pureVars, input_path, exit_code, report, output_dir, stack,
                   root, todo, files0, dirs0, history>>

\* the orders in which a set can be listed
Orders(S) ==
    { o \in [1..Cardinality(S) -> S] :
        \A i, j \in 1..Cardinality(S) : o[i] = o[j] => i = j }

\* os.walk moves on to the next directory: it is listed now, its files are
\* yielded, and its subdirectories are walked after them, in listing order
WalkDir ==
    /\ pc = "walk"
    /\ todo = {}
    /\ stack # <<>>
    /\ LET top == Head(stack)
           subdirs == IF is_dir(top) THEN { d \in dirs : parent(d) = top } ELSE {}
           nondirs == IF is_dir(top) THEN { f \in files : parent(f) = top } ELSE {}
       IN  /\ \E order \in Orders(subdirs) : stack' = order \o Tail(stack)
           /\ root' = top
           /\ todo' = { name_of(f) : f \in nondirs }
    /\ UNCHANGED <<pureVars, fsVars, input_path, pc, exit_code, report,
                   output_dir, processed, log, nhanded, files0, dirs0, history>>

\* one iteration of "for name in files"
WalkFile ==
    /\ pc = "walk"
    /\ todo # {}
    /\ \E name \in todo :
        \E p \in {root \o <<name>>}, rel \in {relative_to(root, input_path)} :
            /\ todo' = todo \ {name}
            /\ IF is_image_file(p)
               THEN \E out_dir \in {out_dir_of(output_dir, rel)} : Handle(p, out_dir)
               ELSE UNCHANGED <<fsVars, processed, log, nhanded>>
    /\ UNCHANGED <<pureVars, input_path, pc, exit_code, report, output_dir,
                   stack, root, files0, dirs0, history>>

\* print("Done. Processed ..."), and the normal exit
Report ==
    /\ \/ pc = "report"
       \/ pc = "walk" /\ todo = {} /\ stack = <<>>
    /\ report' = << [processed |-> processed, output |-> output_dir] >>
    /\ exit_code' = 0
    /\ pc' = "done"
    /\ UNCHANGED <<pureVars, fsVars, input_path, output_dir, processed, stack,
                   root, todo, log, nhanded, files0, dirs0, history>>

\* what a finished run leaves
Written == { e.result[1] : e \in { x \in log : x.result # <<>> } }

\* the program is run again with the same arguments
Rerun ==
    /\ pc \in {"done", "exited"}
    /\ Len(history) + 1 < MaxRuns
    /\ history' = Append(history, [written |-> Written, processed |-> processed,
                                   files |-> files, exit_code |-> exit_code])
    /\ pc' = "start"
    /\ exit_code' = 0 - 1
    /\ report' = <<>>
    /\ output_dir' = <<>>
    /\ processed' = 0
    /\ stack' = <<>>
    /\ root' = <<>>
    /\ todo' = {}
    /\ log' = {}
    /\ nhanded' = 0
    /\ files0' = files
    /\ dirs0' = dirs
    /\ UNCHANGED <<pureVars, fsVars, input_path>>

Next == MainStart \/ Single \/ WalkDir \/ WalkFile \/ Report \/ Rerun

Spec == Init /\ [][Next]_vars

\* a step of the program itself, as opposed to its being started again
Step == MainStart \/ Single \/ WalkDir \/ WalkFile \/ Report

\* the interpreter runs the program to its end
LiveSpec == Spec /\ WF_vars(Step)

----------------------------------------------------------------------------
(* The pure helpers, applied to bounded inputs *)

ImgDims == 1..(margin + MaxText + 2)
TextDims == 0..MaxText
Opacities == (0 - OpacitySlack)..(255 + OpacitySlack)

\* "2020:01:02 10:00:00"
V_colon_time == StrVal(<<N(4, 2020), L(":"), N(2, 1), L(":"), N(2, 2), L(" "),
                         N(2, 10), L(":"), N(2, 0), L(":"), N(2, 0)>>)
\* "2021:05:05 00:00:00"
V_colon_time2 == StrVal(<<N(4, 2021), L(":"), N(2, 5), L(":"), N(2, 5), L(" "),
                          N(2, 0), L(":"), N(2, 0), L(":"), N(2, 0)>>)
\* "2019-11-30 23:59:59"
V_dash_time == StrVal(<<N(4, 2019), L("-"), N(2, 11), L("-"), N(2, 30), L(" "),
                        N(2, 23), L(":"), N(2, 59), L(":"), N(2, 59)>>)
\* "2018:3:9"
V_colon_date == StrVal(<<N(4, 2018), L(":"), N(1, 3), L(":"), N(1, 9)>>)
\* b"2017-12-0\xff1"
V_dash_date_bytes == BytesVal(<<N(4, 2017), L("-"), N(2, 12), L("-"), BadByte, N(2, 1)>>)
\* "2020:01-02": the separators of two formats mixed
V_mixed == StrVal(<<N(4, 2020), L(":"), N(2, 1), L("-"), N(2, 2)>>)
\* "2020:13:02 10:00:00": no month 13
V_month13 == StrVal(<<N(4, 2020), L(":"), N(2, 13), L(":"), N(2, 2), L(" "),
                      N(2, 10), L(":"), N(2, 0), L(":"), N(2, 0)>>)
\* "n/a"
V_text == StrVal(<<L("n/a")>>)

TagValues ==
    { V_colon_time, V_colon_time2, V_dash_time, V_colon_date, V_dash_date_bytes,
      V_mixed, V_month13, V_text, StrVal(<<>>), BytesVal(<<>>), IntVal(0), IntVal(7) }

KeySet == { Keys[i] : i \in 1..Len(Keys) }

Mtimes == { [Y |-> 2022, m |-> 7, d |-> 4, H |-> 12, M |-> 0, S |-> 0],
            [Y |-> 1999, m |-> 10, d |-> 31, H |-> 0, M |-> 0, S |-> 0] }

PositionCalls ==
    { [fn |-> "compute_text_position", img_size |-> <<W, H>>,
       text_size |-> <<w, h>>, position |-> a] :
        W \in ImgDims, H \in ImgDims, w \in TextDims, h \in TextDims, a \in Positions }

DrawCalls ==
    { [fn |-> "draw_watermark", size |-> <<margin + MaxText, MaxText>>,
       text_size |-> <<MaxText, 1>>, color |-> c, opacity |-> o, position |-> a] :
        c \in Colors, o \in Opacities, a \in Positions }

DateCalls ==
    { [fn |-> "watermark_text", exif |-> [fault |-> f, tags |-> t], mtime |-> mt] :
        f \in BOOLEAN, mt \in Mtimes,
        t \in UNION { [ks -> TagValues] : ks \in SUBSET KeySet } }

InitPure ==
    /\ call \in PositionCalls \cup DrawCalls \cup DateCalls
    /\ ret = NoCall
    /\ files = {}
    /\ dirs = {}
    /\ corrupt = {}
    /\ unwritable = {}
    /\ input_path = <<>>
    /\ pc = "idle"
    /\ exit_code = 0 - 1
    /\ report = <<>>
    /\ output_dir = <<>>
    /\ processed = 0
    /\ stack = <<>>
    /\ root = <<>>
    /\ todo = {}
    /\ log = {}
    /\ nhanded = 0
    /\ files0 = {}
    /\ dirs0 = {}
    /\ history = <<>>

CallComputeTextPosition ==
    /\ call.fn = "compute_text_position"
    /\ ret = NoCall
    /\ ret' = [fn |-> call.fn,
               value |-> compute_text_position(call.img_size, call.text_size,
                                               call.position, margin)]
    /\ UNCHANGED <<call, fsVars, runVars>>

CallDrawWatermark ==
    /\ call.fn = "draw_watermark"
    /\ ret = NoCall
    /\ ret' = [fn |-> call.fn,
               value |-> draw_watermark(call.size, call.text_size, call.color,
                                        call.opacity, call.position)]
    /\ UNCHANGED <<call, fsVars, runVars>>

CallWatermarkText ==
    /\ call.fn = "watermark_text"
    /\ ret = NoCall
    /\ ret' = [fn |-> call.fn, value |-> watermark_text(call.exif, call.mtime)]
    /\ UNCHANGED <<call, fsVars, runVars>>

NextPure == CallComputeTextPosition \/ CallDrawWatermark \/ CallWatermarkText

SpecPure == InitPure /\ [][NextPure]_vars

----------------------------------------------------------------------------
(* Properties of the pure helpers (checked under SpecPure) *)

\* C1: for every integer opacity, each alpha passed to a text draw in
\* draw_watermark lies in 0..255, and the shadow pass uses the same alpha
\* as the primary pass.
C1_AlphaClamped ==
    ret.fn = "draw_watermark" =>
        /\ \A i \in 1..Len(ret.value) : ret.value[i].fill[4] \in 0..255
        /\ ret.value[1].fill[4] = ret.value[2].fill[4]

\* What each metadata value of the model shows as, "" when it is no date.
Shown(v) ==
    CASE v = V_colon_time -> "2020-01-02"
      [] v = V_colon_time2 -> "2021-05-05"
      [] v = V_dash_time -> "2019-11-30"
      [] v = V_colon_date -> "2018-03-09"
      [] v = V_dash_date_bytes -> "2017-12-01"
      [] OTHER -> ""

ShownMtime(mt) == IF mt.Y = 2022 THEN "2022-07-04" ELSE "1999-10-31"

\* the keys, in the claimed order, whose value is present and a date
DatedKeys(tags) ==
    LET order == <<"DateTimeOriginal", "DateTimeDigitized", "DateTime">>
    IN  { k \in 1..3 : order[k] \in DOMAIN tags /\ Shown(tags[order[k]]) # "" }

\* C7: the watermark text is the date of the first key, in the order
\* DateTimeOriginal, DateTimeDigitized, DateTime, whose value is present,
\* non-empty and parses under an accepted format; keys with a missing, empty
\* or unparseable value are passed over; when no key qualifies, or metadata
\* is absent or its extraction faults, the text is the modification time.
\* The text reads YYYY-MM-DD.
C7_DatePrecedence ==
    ret.fn = "watermark_text" =>
        LET order == <<"DateTimeOriginal", "DateTimeDigitized", "DateTime">>
            tags == call.exif.tags
            dated == DatedKeys(tags)
        IN  IF call.exif.fault \/ dated = {}
            THEN ret.value = ShownMtime(call.mtime)
            ELSE \E k \in dated :
                    /\ \A j \in dated : k <= j
                    /\ ret.value = Shown(tags[order[k]])

\* an unparseable DateTimeOriginal is passed over for a parseable DateTime
C7_Witness ==
    /\ ret.fn = "watermark_text"
    /\ ~call.exif.fault
    /\ DOMAIN call.exif.tags = {"DateTimeOriginal", "DateTime"}
    /\ call.exif.tags["DateTimeOriginal"] = V_month13
    /\ call.exif.tags["DateTime"] = V_dash_date_bytes
    /\ ret.value = "2017-12-01"

\* C8: compute_text_position with margin 16 returns top-left (16,16);
\* top-right (W-w-16, 16); center (floor((W-w)/2), floor((H-h)/2));
\* bottom-left (16, H-h-16); bottom-right (W-w-16, H-h-16); the result is
\* not clamped, so it is negative whenever text plus margin exceeds the image.
C8_PositionFormulas ==
    ret.fn = "compute_text_position" =>
        LET W == call.img_size[1]
            H == call.img_size[2]
            w == call.text_size[1]
            h == call.text_size[2]
            x == ret.value[1]
            y == ret.value[2]
            Left == x = 16
            Top == y = 16
            Right == x + w + 16 = W /\ (w + 16 > W => x < 0)
            Bottom == y + h + 16 = H /\ (h + 16 > H => y < 0)
            Floor2(q, n) == 2 * q <= n /\ n <= 2 * q + 1
        IN  CASE call.position = "top-left" -> Left /\ Top
              [] call.position = "top-right" -> Right /\ Top
              [] call.position = "center" -> Floor2(x, W - w) /\ Floor2(y, H - h)
              [] call.position = "bottom-left" -> Left /\ Bottom
              [] call.position = "bottom-right" -> Right /\ Bottom

\* a centred text one pixel wider than the image starts at -1, and a
\* bottom-right text larger than the image starts off-canvas
C8_Witness ==
    /\ ret.fn = "compute_text_position"
    /\ \/ /\ call.position = "center"
          /\ call.img_size[1] - call.text_size[1] = 0 - 1
          /\ ret.value[1] = 0 - 1
       \/ /\ call.position = "bottom-right"
          /\ call.img_size = <<1, 1>>
          /\ ret.value[1] < 0 /\ ret.value[2] < 0

----------------------------------------------------------------------------
(* Properties of main (checked under Spec and LiveSpec) *)

InputWasFound == input_path \in files0 \cup dirs0
DirectoryMode == input_path \in dirs0
Succeeded == { e \in log : e.result # <<>> }
Handed == { e.file : e \in log }

\* a name that ends, in any letter case, in one of the six extensions
Recognized(name) ==
    \E s \in ImageSuffixes : Len(name) > Len(s) /\ endswith(lower(name), s)

C3_MirroredLayout ==
    DirectoryMode =>
        \A e \in log :
            /\ IsUnder(e.file, input_path)
            /\ Recognized(name_of(e.file))
            /\ e \in Succeeded =>
                /\ e.result[1] \in files
                /\ parent(e.result[1]) =
                       output_dir \o SubSeq(e.file, Len(input_path) + 1, Len(e.file) - 1)
                /\ endswith(name_of(e.result[1]), Wm \o Jpg)
                       \/ endswith(name_of(e.result[1]), Wm \o Png)

\* a file two directories down is written two directories down the output
\* root, and the text file beside the images was not handed over
C3_Witness ==
    /\ DirectoryMode
    /\ pc = "done"
    /\ N_txt \in files0
    /\ \E e \in Succeeded :
        /\ e.file = C_jpeg
        /\ e.result[1] = output_dir \o <<Sub, Sub>>
                         \o << <<"c", ".", "t", "a", "r", "_", "w", "m", ".", "j", "p", "g">> >>

\* the state part of C4
C4_Counts ==
    DirectoryMode =>
        /\ nhanded = Cardinality(Handed)
        /\ processed = Cardinality(Succeeded)
        /\ pc = "done" =>
            /\ report = << [processed |-> Cardinality(Succeeded), output |-> output_dir] >>
            /\ \A f \in files0 :
                   IsUnder(f, input_path) /\ Recognized(name_of(f)) => f \in Handed

\* C4: in a directory batch a file whose processing fails is skipped: every
\* eligible file of the tree is handed to process_image_file exactly once in
\* any traversal order, the run ends with the "Done" report, and the count
\* reported is the number of files for which a path was returned.
C4_FailureIsolated ==
    /\ []C4_Counts
    /\ (pc = "start" /\ DirectoryMode) ~> (pc = "done" /\ report # <<>>)

\* a run that ended after a decode failure, a write failure and two successes
C4_Witness ==
    /\ DirectoryMode
    /\ pc = "done"
    /\ \E e \in log : e.failed = "decode"
    /\ \E e \in log : e.failed = "save"
    /\ processed = 2
    /\ report[1].processed = 2

\* the state part of C5
C5_Exit ==
    /\ pc = "exited" =>
        /\ ~InputWasFound
        /\ exit_code = 1
    /\ ~InputWasFound =>
        /\ pc \in {"start", "exited"}
        /\ files = files0 /\ dirs = dirs0
        /\ nhanded = 0
        /\ report = <<>>
    /\ pc = "done" => exit_code = 0 /\ report # <<>>

\* C5: when the input path does not exist main exits with status 1 before
\* anything is read, created or written and never prints the "Done" report;
\* in every other case the run reaches the "Done" report.
C5_MissingInputIsFatal ==
    /\ []C5_Exit
    /\ (pc = "start" /\ InputWasFound) ~> (pc = "done")
    /\ (pc = "start" /\ ~InputWasFound) ~> (pc = "exited")

\* the run on a missing path has exited with status 1
C5_Witness ==
    /\ pc = "exited"
    /\ input_path = Missing
    /\ exit_code = 1
    /\ files # {}

\* C6: the output filename is the input's stem, then "_wm", then ".png" when
\* the source extension is ".png" in any letter case and ".jpg" for every
\* other recognized extension; the alpha channel is flattened exactly when
\* the output extension is ".jpg".
C6_OutputName ==
    \A e \in Succeeded :
        LET n == name_of(e.file)
            o == name_of(e.result[1])
        IN  \E k \in 2..Len(n) :
                /\ n[k] = "."
                /\ \A j \in (k + 1)..Len(n) : n[j] # "."
                /\ SubSeq(o, 1, k - 1) = SubSeq(n, 1, k - 1)
                /\ SubSeq(o, k, Len(o)) =
                       Wm \o (IF lower(SubSeq(n, k, Len(n))) = Png THEN Png ELSE Jpg)
                /\ e.flattened <=> SubSeq(o, Len(o) - 3, Len(o)) = Jpg

\* b.PNG became b_wm.png with its alpha channel kept, and c.tar.jpeg became
\* c.tar_wm.jpg, flattened
C6_Witness ==
    /\ \E e \in Succeeded :
        /\ e.file = B_PNG
        /\ name_of(e.result[1]) = <<"b", "_", "w", "m", ".", "p", "n", "g">>
        /\ ~e.flattened
    /\ \E e \in Succeeded :
        /\ e.file = C_jpeg
        /\ name_of(e.result[1]) =
               <<"c", ".", "t", "a", "r", "_", "w", "m", ".", "j", "p", "g">>
        /\ e.flattened

\* C9: over any sequence of directory-mode runs on the same input the walk
\* never hands over a file lying under the output root; so a second run
\* over an unchanged input creates no output path the first did not, and
\* reports the same count.
C9_OutputNeverReprocessed ==
    DirectoryMode =>
        /\ \A e \in log : ~IsUnder(e.file, output_dir)
        /\ (pc = "done" /\ history # <<>>) =>
            /\ files = history[Len(history)].files
            /\ processed = history[Len(history)].processed

\* C10: within one directory-mode run no two eligible input files are
\* written to the same output path, so at the end of the run the number of
\* distinct output files written equals the reported count and no output of
\* the run was overwritten by a later file of the run.
C10_DistinctOutputs ==
    DirectoryMode =>
        /\ \A e1, e2 \in Succeeded : e1.file # e2.file => e1.result # e2.result
        /\ pc = "done" => Cardinality(Written) = report[1].processed

====
